---------------------------- MODULE Spec2Model ----------------------------
(***************************************************************************)
(* Model of the build plan estimator: src/src/engine/pdf_parser.py (page   *)
(* rendering, room detection, material estimates, plan totals) and the     *)
(* viewer's select-PDF handler in src/src/ui/app.py.                        *)
(*                                                                         *)
(* Python floats are IEEE-754 binary64.  The estimates are float           *)
(* arithmetic, so the model carries binary64 values exactly: a float is a  *)
(* record [m, e] denoting m * 2^e with m a 53-bit natural (or zero), and   *)
(* every float operation is the exact result rounded to nearest, ties to   *)
(* even.  Naturals wider than the checker's machine integers are           *)
(* little-endian sequences of base-2^15 limbs.                             *)
(***************************************************************************)
EXTENDS Integers, Sequences

(***************************************************************************)
(* Arbitrary-precision naturals (support for binary64 arithmetic).         *)
(***************************************************************************)
LimbBits == 15

Base == 32768

RECURSIVE Pow2(_)
Pow2(k) == IF k = 0 THEN 1 ELSE 2 * Pow2(k - 1)

RECURSIVE BNorm(_)
BNorm(a) ==
    IF a = <<>> THEN <<>>
    ELSE IF a[Len(a)] = 0 THEN BNorm(SubSeq(a, 1, Len(a) - 1))
    ELSE a

RECURSIVE BFromInt(_)
BFromInt(n) == IF n = 0 THEN <<>> ELSE <<n % Base>> \o BFromInt(n \div Base)

RECURSIVE BToInt(_)
BToInt(a) == IF a = <<>> THEN 0 ELSE a[1] + Base * BToInt(Tail(a))

RECURSIVE BCmpFrom(_, _, _)
BCmpFrom(a, b, i) ==
    IF i = 0 THEN 0
    ELSE IF a[i] < b[i] THEN -1
    ELSE IF a[i] > b[i] THEN 1
    ELSE BCmpFrom(a, b, i - 1)

BCmp(a, b) ==
    IF Len(a) < Len(b) THEN -1
    ELSE IF Len(a) > Len(b) THEN 1
    ELSE BCmpFrom(a, b, Len(a))

RECURSIVE BAddC(_, _, _)
BAddC(a, b, c) ==
    IF a = <<>> /\ b = <<>> THEN (IF c = 0 THEN <<>> ELSE <<c>>)
    ELSE LET x == IF a = <<>> THEN 0 ELSE a[1]
             y == IF b = <<>> THEN 0 ELSE b[1]
             s == x + y + c
         IN  <<s % Base>> \o BAddC(IF a = <<>> THEN <<>> ELSE Tail(a),
                                   IF b = <<>> THEN <<>> ELSE Tail(b),
                                   s \div Base)

BAdd(a, b) == BAddC(a, b, 0)

RECURSIVE BSubC(_, _, _)
BSubC(a, b, c) ==
    IF a = <<>> THEN <<>>
    ELSE LET y == IF b = <<>> THEN 0 ELSE b[1]
             d == a[1] - y - c
         IN  <<d % Base>> \o BSubC(Tail(a),
                                   IF b = <<>> THEN <<>> ELSE Tail(b),
                                   IF d < 0 THEN 1 ELSE 0)

BSub(a, b) == BNorm(BSubC(a, b, 0))

RECURSIVE BMulSmallC(_, _, _)
BMulSmallC(a, k, c) ==
    IF a = <<>> THEN (IF c = 0 THEN <<>> ELSE <<c>>)
    ELSE LET p == a[1] * k + c
         IN  <<p % Base>> \o BMulSmallC(Tail(a), k, p \div Base)

BMulSmall(a, k) == IF k = 0 THEN <<>> ELSE BMulSmallC(a, k, 0)

BShiftLimb(a) == IF a = <<>> THEN <<>> ELSE <<0>> \o a

RECURSIVE BMul(_, _)
BMul(a, b) ==
    IF b = <<>> THEN <<>>
    ELSE BAdd(BMulSmall(a, b[1]), BShiftLimb(BMul(a, Tail(b))))

RECURSIVE BDivSmallFrom(_, _, _, _)
BDivSmallFrom(a, k, i, r) ==
    IF i = 0 THEN <<>>
    ELSE LET cur == r * Base + a[i]
         IN  BDivSmallFrom(a, k, i - 1, cur % k) \o <<cur \div k>>

BDivSmall(a, k) == BNorm(BDivSmallFrom(a, k, Len(a), 0))

RECURSIVE IntBitLen(_)
IntBitLen(n) == IF n = 0 THEN 0 ELSE 1 + IntBitLen(n \div 2)

BBitLen(a) ==
    IF a = <<>> THEN 0 ELSE (Len(a) - 1) * LimbBits + IntBitLen(a[Len(a)])

RECURSIVE BZeros(_)
BZeros(n) == IF n = 0 THEN <<>> ELSE <<0>> \o BZeros(n - 1)

BShl(a, k) ==
    IF a = <<>> THEN <<>>
    ELSE BZeros(k \div LimbBits) \o BMulSmall(a, Pow2(k % LimbBits))

BShr(a, k) ==
    IF k \div LimbBits >= Len(a) THEN <<>>
    ELSE BDivSmall(SubSeq(a, k \div LimbBits + 1, Len(a)), Pow2(k % LimbBits))

BBit(a, i) ==
    IF i \div LimbBits >= Len(a) THEN 0
    ELSE (a[i \div LimbBits + 1] \div Pow2(i % LimbBits)) % 2

BOdd(a) == a # <<>> /\ a[1] % 2 = 1

\* q is floor(a / 2^k) and c compares the part shifted out with 2^(k-1)
BRoundUp(q, c) == IF c > 0 \/ (c = 0 /\ BOdd(q)) THEN BAdd(q, <<1>>) ELSE q

BRoundShifted(a, q, k) ==
    BRoundUp(q, BCmp(BSub(a, BShl(q, k)), BShl(<<1>>, k - 1)))

\* floor(a / 2^k) rounded to nearest, ties to even
BShrRound(a, k) == IF k = 0 THEN a ELSE BRoundShifted(a, BShr(a, k), k)

\* largest digit d with b * d <= r, given an estimate that is not too small
RECURSIVE BFixDigit(_, _, _)
BFixDigit(r, b, d) ==
    IF BCmp(BMulSmall(b, d), r) > 0 THEN BFixDigit(r, b, d - 1) ELSE d

\* one quotient limb of schoolbook long division (r < b * Base, and the top
\* limb of b is at least Base / 2, so the estimate is at most 2 too large)
BDigit(r, b) ==
    IF BCmp(r, b) < 0 THEN 0
    ELSE LET n   == Len(b)
             top == (IF Len(r) > n THEN r[n + 1] ELSE 0) * Base + r[n]
             est == top \div b[n]
         IN  BFixDigit(r, b, IF est > Base - 1 THEN Base - 1 ELSE est)

\* the quotient limb d goes in front of q and comes off the remainder r
BTakeDigit(q, r, b, d) ==
    [q |-> BNorm(<<d>> \o q), r |-> BSub(r, BMulSmall(b, d))]

\* one more limb of the dividend behind the division state s
BDivStep(s, limb, b) ==
    BTakeDigit(s.q, BNorm(<<limb>> \o s.r), b,
               BDigit(BNorm(<<limb>> \o s.r), b))

\* quotient and remainder after the limbs of a from the top down to limb k
RECURSIVE BDivLimbs(_, _, _)
BDivLimbs(a, b, k) ==
    IF k > Len(a) THEN [q |-> <<>>, r |-> <<>>]
    ELSE BDivStep(BDivLimbs(a, b, k + 1), a[k], b)

BUnshift(d, s) == [q |-> d.q, r |-> BShr(d.r, s)]

\* a and b shifted so that the top limb of b is at least Base / 2
BDivShifted(a, b, s) == BUnshift(BDivLimbs(BShl(a, s), BShl(b, s), 1), s)

\* floor(a / b) and a mod b, b nonzero
BDivMod(a, b) == BDivShifted(a, b, LimbBits - IntBitLen(b[Len(b)]))

(***************************************************************************)
(* IEEE-754 binary64, non-negative finite values (all the program forms).  *)
(***************************************************************************)
MantBits == 53

FZero == [m |-> <<>>, e |-> 0]

\* a mantissa that rounding carried to 2^53 goes back to 53 bits
FRenorm(m, e) ==
    IF BBitLen(m) > MantBits THEN [m |-> BShr(m, 1), e |-> e + 1]
    ELSE [m |-> m, e |-> e]

\* n has L bits
FRoundBits(n, e, L) ==
    IF L <= MantBits
    THEN [m |-> BShl(n, MantBits - L), e |-> e - (MantBits - L)]
    ELSE FRenorm(BShrRound(n, L - MantBits), e + (L - MantBits))

\* the float nearest to n * 2^e (n an exact natural)
FRound(n, e) == IF n = <<>> THEN FZero ELSE FRoundBits(n, e, BBitLen(n))

FFromInt(i) == FRound(BFromInt(i), 0)

FMul(x, y) ==
    IF x.m = <<>> \/ y.m = <<>> THEN FZero
    ELSE FRound(BMul(x.m, y.m), x.e + y.e)

FAdd(x, y) ==
    IF x.m = <<>> THEN y
    ELSE IF y.m = <<>> THEN x
    ELSE LET emin == IF x.e < y.e THEN x.e ELSE y.e
         IN  FRound(BAdd(BShl(x.m, x.e - emin), BShl(y.m, y.e - emin)), emin)

\* the quotient d.q with one more bit that says whether a remainder is left
FQuotient(d, e) ==
    FRound(BAdd(BMulSmall(d.q, 2), IF d.r = <<>> THEN <<>> ELSE <<1>>), e)

\* (the program never divides by zero)
FDiv(x, y) ==
    IF x.m = <<>> \/ y.m = <<>> THEN FZero
    ELSE FQuotient(BDivMod(BShl(x.m, MantBits + 3), y.m),
                   x.e - y.e - (MantBits + 3) - 1)

\* -1, 0, 1 as x <, =, > y
FCmp(x, y) ==
    IF x.m = <<>> THEN (IF y.m = <<>> THEN 0 ELSE -1)
    ELSE IF y.m = <<>> THEN 1
    ELSE IF x.e < y.e THEN -1
    ELSE IF x.e > y.e THEN 1
    ELSE BCmp(x.m, y.m)

\* q is the integer part of x, x.e < 0
FCeilAbove(x, q) ==
    IF BShl(q, 0 - x.e) = x.m THEN BToInt(q) ELSE BToInt(q) + 1

\* numpy.ceil followed by int()
FCeil(x) ==
    IF x.m = <<>> THEN 0
    ELSE IF x.e >= 0 THEN BToInt(BShl(x.m, x.e))
    ELSE FCeilAbove(x, BShr(x.m, 0 - x.e))

\* the exact value of x times 100, rounded to the nearest integer, ties to even
FHundredths(x) ==
    IF x.m = <<>> THEN 0
    ELSE IF x.e >= 0 THEN BToInt(BShl(BMulSmall(x.m, 100), x.e))
    ELSE BToInt(BShrRound(BMulSmall(x.m, 100), 0 - x.e))

\* the float nearest to the decimal d / 100
FFromHundredths(d) == FDiv(FFromInt(d), FFromInt(100))

\* Python's round(x, 2): correctly rounded decimal, converted back
PyRound2(x) == FFromHundredths(FHundredths(x))


(***************************************************************************)
(* Bounds of the model.                                                    *)
(***************************************************************************)
\* longest list of contours the contour extraction hands to the filter
MaxContours == 2

\* longest list of contours on a page selected in the viewer
MaxOverlays == 2

(***************************************************************************)
(* pdf_parser.py: constants.                                               *)
(***************************************************************************)
PIXEL_TO_FEET == FDiv(FFromInt(1), FFromInt(10))

WALL_HEIGHT_FT == FFromInt(8)

STUD_SPACING_FT == FDiv(FFromInt(16), FFromInt(12))

\* the literals 0.0005, 2000 and 0.95 of _filter_contours
AreaFraction == FDiv(FFromInt(5), FFromInt(10000))

AreaFloor == 2000

FrameFraction == FDiv(FFromInt(95), FFromInt(100))

(***************************************************************************)
(* pdf_parser.py: _filter_contours.  A contour is carried as the bounding  *)
(* rectangle cv2.boundingRect computes for it.                             *)
(***************************************************************************)
BoundingRect(contour) == <<contour.x, contour.y, contour.w, contour.h>>

\* Python's max(a, b): b when it is the larger, else a
FMax(a, b) == IF FCmp(b, a) > 0 THEN b ELSE a

\* max(width * height * 0.0005, 2000)
MinArea(width, height) ==
    FMax(FMul(FFromInt(width * height), AreaFraction), FFromInt(AreaFloor))

\* variant: the frame test joined with "or"
KeepContourEitherSide(contour, width, height) ==
    LET w    == BoundingRect(contour)[3]
        h    == BoundingRect(contour)[4]
        area == w * h
    IN  IF FCmp(FFromInt(area), MinArea(width, height)) < 0 THEN FALSE
        ELSE IF \/ FCmp(FFromInt(w), FMul(FFromInt(width), FrameFraction)) >= 0
                \/ FCmp(FFromInt(h), FMul(FFromInt(height), FrameFraction)) >= 0
             THEN FALSE
        ELSE TRUE

KeepContour(contour, width, height) ==
    LET w    == BoundingRect(contour)[3]
        h    == BoundingRect(contour)[4]
        area == w * h
    IN  IF FCmp(FFromInt(area), MinArea(width, height)) < 0 THEN FALSE
        ELSE IF /\ FCmp(FFromInt(w), FMul(FFromInt(width), FrameFraction)) >= 0
                /\ FCmp(FFromInt(h), FMul(FFromInt(height), FrameFraction)) >= 0
             THEN FALSE
        ELSE TRUE

FilterContours(contours, width, height) ==
    SelectSeq(contours, LAMBDA c : KeepContour(c, width, height))

(***************************************************************************)
(* pdf_parser.py: detect_rooms, estimate construction and ordering.        *)
(***************************************************************************)
IntMax(a, b) == IF b > a THEN b ELSE a

\* studs_count = max(1, int(np.ceil(perimeter_ft / STUD_SPACING_FT)))
StudsCount(perimeter_ft) ==
    IntMax(1, FCeil(FDiv(perimeter_ft, STUD_SPACING_FT)))

\* the RoomEstimate of a rectangle of the given area and perimeter
RoomEstimate(rect, area_sqft, perimeter_ft) ==
    [rect          |-> rect,
     flooring_sqft |-> PyRound2(area_sqft),
     drywall_sqft  |-> PyRound2(FMul(perimeter_ft, WALL_HEIGHT_FT)),
     studs         |-> StudsCount(perimeter_ft)]

\* area_sqft = width_ft * height_ft, perimeter_ft = 2 * (width_ft + height_ft)
EstimateInFeet(rect, width_ft, height_ft) ==
    RoomEstimate(rect, FMul(width_ft, height_ft),
                 FMul(FFromInt(2), FAdd(width_ft, height_ft)))

\* variant: the bounding rectangle read as two corners
BuildEstimateCorners(contour) ==
    LET x == BoundingRect(contour)[1]
        y == BoundingRect(contour)[2]
        w == BoundingRect(contour)[3] - BoundingRect(contour)[1]
        h == BoundingRect(contour)[4] - BoundingRect(contour)[2]
    IN  EstimateInFeet(<<x, y, w, h>>, FMul(FFromInt(w), PIXEL_TO_FEET),
                       FMul(FFromInt(h), PIXEL_TO_FEET))

\* the body of the loop over the filtered contours
BuildEstimate(contour) ==
    LET x == BoundingRect(contour)[1]
        y == BoundingRect(contour)[2]
        w == BoundingRect(contour)[3]
        h == BoundingRect(contour)[4]
    IN  EstimateInFeet(<<x, y, w, h>>, FMul(FFromInt(w), PIXEL_TO_FEET),
                       FMul(FFromInt(h), PIXEL_TO_FEET))

\* variant: an element goes in front of the elements with an equal key
RECURSIVE InsertDescendingUnstable(_, _)
InsertDescendingUnstable(sorted, e) ==
    IF sorted = <<>> THEN <<e>>
    ELSE IF FCmp(Head(sorted).flooring_sqft, e.flooring_sqft) > 0
         THEN <<Head(sorted)>> \o InsertDescendingUnstable(Tail(sorted), e)
         ELSE <<e>> \o sorted

\* put e behind every element whose key is not smaller (list.sort is stable,
\* also with reverse=True)
RECURSIVE InsertDescending(_, _)
InsertDescending(sorted, e) ==
    IF sorted = <<>> THEN <<e>>
    ELSE IF FCmp(Head(sorted).flooring_sqft, e.flooring_sqft) >= 0
         THEN <<Head(sorted)>> \o InsertDescending(Tail(sorted), e)
         ELSE <<e>> \o sorted

RECURSIVE SortDescending(_)
SortDescending(estimates) ==
    IF estimates = <<>> THEN <<>>
    ELSE InsertDescending(
             SortDescending(SubSeq(estimates, 1, Len(estimates) - 1)),
             estimates[Len(estimates)])

\* variant: the channel count is not looked at
ShapeOKAnyChannels(shape) == Len(shape) = 3

\* rgba.ndim != 3 or rgba.shape[2] not in {3, 4}
ShapeOK(shape) == Len(shape) = 3 /\ shape[3] \in {3, 4}

\* _qimage_to_numpy: an RGBA array of the image's height and width
QImageToNumpy(image) == <<image.shape[1], image.shape[2], 4>>

\* the cv2 calls of detect_rooms, in program order
CvStages(shape) ==
    << IF shape[3] = 4 THEN "COLOR_RGBA2BGR" ELSE "COLOR_RGB2BGR",
       "COLOR_BGR2GRAY", "GaussianBlur", "adaptiveThreshold",
       "morphologyEx", "findContours" >>

NumCvStages == 6

\* image: [kind, shape]; cv: what OpenCV does with it, [fail, contours]:
\* stage number `fail` raises (0: none), else findContours returns `contours`
\* estimates.sort(...) and the return
SortedEstimates(rgba, contours, estimates) ==
    [err |-> "none",
     stages |-> CvStages(rgba) \o <<"_filter_contours", "estimates", "sort">>,
     filtered |-> contours,
     built |-> estimates,
     estimates |-> SortDescending(estimates)]

\* the loop over the filtered contours
EstimateContours(rgba, contours) ==
    SortedEstimates(rgba, contours,
                    [i \in 1..Len(contours) |-> BuildEstimate(contours[i])])

DetectRooms(image, cv) ==
    LET rgba == IF image.kind = "QImage" THEN QImageToNumpy(image)
                ELSE image.shape
    IN  IF ~ShapeOK(rgba)
        THEN [err |-> "ValueError", stages |-> <<>>,
              filtered |-> <<>>, built |-> <<>>, estimates |-> <<>>]
        ELSE IF cv.fail > 0
        THEN [err |-> "cv2.error",
              stages |-> SubSeq(CvStages(rgba), 1, cv.fail),
              filtered |-> <<>>, built |-> <<>>, estimates |-> <<>>]
        ELSE EstimateContours(rgba,
                              FilterContours(cv.contours, rgba[2], rgba[1]))

(***************************************************************************)
(* pdf_parser.py: _ensure_path and render_pdf_to_image.  A document is     *)
(* what the file system and the rasterizer hold for the selected path:     *)
(* [fs, valid, page_count, n, width, height, stride, cv].                  *)
(***************************************************************************)
\* path.exists(): true of files and of directories
PathExists(doc) == doc.fs # "missing"

\* variant: no existence check
EnsurePathNoCheck(doc) == "none"

EnsurePath(doc) == IF PathExists(doc) THEN "none" ELSE "FileNotFoundError"

\* fitz.open raises on a path that is not a readable PDF file
FitzOpens(doc) == doc.fs = "file" /\ doc.valid

ImageFormat(n) ==
    IF n = 4 THEN "Format_RGBA8888"
    ELSE IF n = 3 THEN "Format_RGB888"
    ELSE "Format_Grayscale8"

\* numpy's reshape raises unless the element counts agree
RECURSIVE Size(_)
Size(shape) == IF shape = <<>> THEN 1 ELSE Head(shape) * Size(Tail(shape))

\* the shape of the array after the two reshapes and the column slice
PixelArrayShape(pixmap) ==
    LET flat == <<pixmap.height * pixmap.stride>>
        rows == <<pixmap.height, pixmap.stride>>
        cut  == <<rows[1], IF pixmap.width * pixmap.n < rows[2]
                           THEN pixmap.width * pixmap.n ELSE rows[2]>>
        pix  == <<pixmap.height, pixmap.width, pixmap.n>>
    IN  IF Size(flat) = Size(rows) /\ Size(cut) = Size(pix) THEN pix ELSE <<>>

\* variant: the alpha channel is added only when the channels were not repeated
RenderArrayShapeElif(pixmap) ==
    LET pix == PixelArrayShape(pixmap)
    IN  IF pixmap.n = 1 THEN <<pix[1], pix[2], 3 * pix[3]>>
        ELSE IF pix[3] = 3 THEN <<pix[1], pix[2], pix[3] + 1>>
        ELSE pix

\* np.repeat of a single channel, then the alpha channel for three channels
RenderArrayShape(pixmap) ==
    LET pix == PixelArrayShape(pixmap)
        rgb == IF pixmap.n = 1 THEN <<pix[1], pix[2], 3 * pix[3]>> ELSE pix
    IN  IF rgb[3] = 3 THEN <<rgb[1], rgb[2], rgb[3] + 1>> ELSE rgb

NoImage == [width |-> 0, height |-> 0, format |-> "none"]

RenderPdfToImage(doc) ==
    IF EnsurePath(doc) # "none"
    THEN [err |-> EnsurePath(doc), trace |-> <<"exists">>,
          image |-> NoImage, array |-> <<>>]
    ELSE IF ~FitzOpens(doc)
    THEN [err |-> "fitz.open error", trace |-> <<"exists", "fitz.open">>,
          image |-> NoImage, array |-> <<>>]
    ELSE IF doc.page_count = 0
    THEN [err |-> "ValueError", trace |-> <<"exists", "fitz.open">>,
          image |-> NoImage, array |-> <<>>]
    ELSE IF PixelArrayShape(doc) = <<>>
    THEN [err |-> "ValueError",
          trace |-> <<"exists", "fitz.open", "load_page", "get_pixmap">>,
          image |-> NoImage, array |-> <<>>]
    ELSE [err |-> "none",
          trace |-> <<"exists", "fitz.open", "load_page", "get_pixmap">>,
          image |-> [width |-> doc.width, height |-> doc.height,
                     format |-> ImageFormat(doc.n)],
          array |-> RenderArrayShape(doc)]

(***************************************************************************)
(* pdf_parser.py: parse_pdf.                                               *)
(***************************************************************************)
\* variant: the first room is left out of the sum
RECURSIVE SumFloatSkipFirst(_, _)
SumFloatSkipFirst(rooms, field) ==
    IF Len(rooms) <= 1 THEN FZero
    ELSE FAdd(SumFloatSkipFirst(SubSeq(rooms, 1, Len(rooms) - 1), field),
              rooms[Len(rooms)][field])

\* sum(...) starts from 0 and adds the elements left to right
RECURSIVE SumFloat(_, _)
SumFloat(rooms, field) ==
    IF rooms = <<>> THEN FZero
    ELSE FAdd(SumFloat(SubSeq(rooms, 1, Len(rooms) - 1), field),
              rooms[Len(rooms)][field])

RECURSIVE SumStuds(_)
SumStuds(rooms) ==
    IF rooms = <<>> THEN 0
    ELSE SumStuds(SubSeq(rooms, 1, Len(rooms) - 1)) + rooms[Len(rooms)].studs

Totals(rooms) ==
    [flooring_sqft |-> PyRound2(SumFloat(rooms, "flooring_sqft")),
     drywall_sqft  |-> PyRound2(SumFloat(rooms, "drywall_sqft")),
     studs         |-> SumStuds(rooms)]

NoSummary ==
    [page_number |-> 0, image_size |-> <<0, 0>>, room_count |-> 0,
     totals |-> Totals(<<>>)]

\* r: what render_pdf_to_image returned, d: what detect_rooms did with it
Summarize(r, d) ==
    IF d.err # "none"
    THEN [err |-> d.err, trace |-> r.trace \o <<"detect_rooms">>,
          returned |-> FALSE, rooms |-> <<>>, summary |-> NoSummary]
    ELSE [err |-> "none", trace |-> r.trace \o <<"detect_rooms">>,
          returned |-> TRUE, rooms |-> d.estimates,
          summary |-> [page_number |-> 1,
                       image_size  |-> <<r.image.width, r.image.height>>,
                       room_count  |-> Len(d.estimates),
                       totals      |-> Totals(d.estimates)]]

ParsePdf(doc) ==
    LET r == RenderPdfToImage(doc)
    IN  IF r.err # "none"
        THEN [err |-> r.err, trace |-> r.trace, returned |-> FALSE,
              rooms |-> <<>>, summary |-> NoSummary]
        ELSE Summarize(r, DetectRooms([kind |-> "ndarray", shape |-> r.array],
                                      doc.cv))

(***************************************************************************)
(* app.py: the viewer.                                                     *)
(***************************************************************************)
\* "except Exception" around render_pdf_to_image and around detect_rooms
RenderCaught(err) == TRUE

\* variant: "except ValueError"
DetectCaughtValueError(err) == err = "ValueError"

DetectCaught(err) == TRUE

\* f"{x:.2f}": the digits of x to two decimals, as a count of hundredths
Format2f(x) == FHundredths(x)

\* _draw_room_overlays: one rectangle item per estimate, above the page
RoomOverlays(room_estimates) ==
    [i \in 1..Len(room_estimates) |->
        [type |-> "rect", rect |-> room_estimates[i].rect, z |-> 1,
         tip  |-> <<i, room_estimates[i].flooring_sqft,
                    room_estimates[i].drywall_sqft,
                    room_estimates[i].studs>>]]

\* _populate_table: setRowCount, then the four items of every row
TableRows(room_estimates) ==
    [row \in 1..Len(room_estimates) |->
        <<row, Format2f(room_estimates[row].flooring_sqft),
          Format2f(room_estimates[row].drywall_sqft),
          room_estimates[row].studs>>]

PixmapItem(image) ==
    [type |-> "pixmap", rect |-> <<0, 0, image.width, image.height>>, z |-> 0,
     tip  |-> <<>>]

(***************************************************************************)
(* Inputs.                                                                 *)
(***************************************************************************)
Contour(x, y, w, h) == [x |-> x, y |-> y, w |-> w, h |-> h]

SeqsUpTo(S, n) == UNION {[1..k -> S] : k \in 0..n}

\* image sizes <<width, height>> handed to detect_rooms
ImageSizes == {<<100, 100>>, <<2500, 2000>>}

\* bounding rectangles OpenCV may report inside an image of the given size:
\* at, below and above the area threshold, at and around the frame limit,
\* equal areas, perimeters that are and are not multiples of the stud spacing
Candidates(size) ==
    IF size = <<100, 100>>
    THEN {Contour(10, 10, 40, 50), Contour(50, 20, 50, 40),
          Contour(0, 0, 40, 49),   Contour(2, 2, 96, 96),
          Contour(0, 0, 95, 95),   Contour(0, 5, 95, 94),
          Contour(10, 10, 38, 82), Contour(20, 30, 38, 54)}
    ELSE {Contour(0, 0, 50, 50),   Contour(7, 9, 50, 49),
          Contour(50, 40, 2400, 1920), Contour(0, 0, 2375, 1900),
          Contour(10, 10, 2375, 1899), Contour(100, 100, 1000, 800)}

\* what OpenCV does with an image of the given size
CvOutcomes(size, maxLen) ==
    {[fail |-> 0, contours |-> l] : l \in SeqsUpTo(Candidates(size), maxLen)}
    \cup {[fail |-> k, contours |-> <<>>] : k \in 1..NumCvStages}

\* arrays detect_rooms rejects
BadShapes ==
    {<<100, 100>>, <<100, 100, 1>>, <<100, 100, 2>>, <<100, 100, 5>>,
     <<1, 100, 100, 3>>}

ValidDetectInputs(sz) ==
    {[image |-> [kind |-> "ndarray", shape |-> <<sz[2], sz[1], ch>>], cv |-> cv] :
        ch \in {3, 4}, cv \in CvOutcomes(sz, MaxContours)}
    \cup {[image |-> [kind |-> "QImage", shape |-> <<sz[2], sz[1]>>], cv |-> cv] :
        cv \in CvOutcomes(sz, MaxContours)}

DetectInputs ==
    UNION {ValidDetectInputs(sz) : sz \in ImageSizes}
    \cup {[image |-> [kind |-> "ndarray", shape |-> sh],
           cv |-> [fail |-> 0, contours |-> <<Contour(10, 10, 40, 50)>>]] :
          sh \in BadShapes}

\* the page size the rasterizer produces for the documents of the model
PageSize == <<100, 100>>

\* bounding rectangles on a page shown in the viewer
PageCandidates ==
    {Contour(10, 10, 40, 50), Contour(10, 10, 38, 82), Contour(0, 0, 40, 49)}

\* stride - width * n of the rasterizer's rows
RowPads == {0, 3}

MissingPath ==
    [fs |-> "missing", valid |-> FALSE, page_count |-> 0, n |-> 3,
     width |-> 0, height |-> 0, stride |-> 0,
     cv |-> [fail |-> 0, contours |-> <<>>]]

UnreadablePaths ==
    {[MissingPath EXCEPT !.fs = "directory"], [MissingPath EXCEPT !.fs = "file"],
     [MissingPath EXCEPT !.fs = "file", !.valid = TRUE]}

Page(n, pad, cv) ==
    [fs |-> "file", valid |-> TRUE, page_count |-> 1, n |-> n,
     width |-> PageSize[1], height |-> PageSize[2],
     stride |-> PageSize[1] * n + pad, cv |-> cv]

\* documents handed to parse_pdf and render_pdf_to_image
Documents ==
    {MissingPath} \cup UnreadablePaths
    \cup {Page(n, pad, cv) : n \in {1, 3, 4}, pad \in RowPads,
                             cv \in CvOutcomes(PageSize, MaxContours)}

\* documents selected in the viewer
ViewerDocuments ==
    {MissingPath} \cup UnreadablePaths
    \cup {Page(n, 0, [fail |-> 0, contours |-> l]) :
              n \in {1, 3, 4}, l \in SeqsUpTo(PageCandidates, MaxOverlays)}
    \cup {Page(n, 0, [fail |-> k, contours |-> <<>>]) :
              n \in {1, 3, 4}, k \in {1, NumCvStages}}

(***************************************************************************)
(* State.                                                                  *)
(***************************************************************************)
VARIABLES
    pc,          \* "ready", or the name of the function that has returned
    input,       \* the argument of the call
    result,      \* what the call returned or raised
    scene,       \* items of the QGraphicsScene, in insertion order
    sceneRect,   \* the scene rectangle
    table,       \* rows of the QTableWidget
    dialog,      \* message box shown by the last run of the handler
    outcome,     \* how the last run of the handler ended
    shown,       \* <<doc>> of the last selection whose render succeeded
    propagated   \* an exception left the handler

vars == <<pc, input, result, scene, sceneRect, table, dialog, outcome, shown,
          propagated>>

callVars == <<pc, input, result>>

viewerVars == <<scene, sceneRect, table, dialog, outcome, shown, propagated>>

NoResult == [err |-> "not called"]

\* MainWindow.__init__: an empty scene and a table without rows
ViewerInit ==
    /\ scene = <<>>
    /\ sceneRect = <<0, 0, 0, 0>>
    /\ table = <<>>
    /\ dialog = "none"
    /\ outcome = "init"
    /\ shown = <<>>
    /\ propagated = FALSE

(***************************************************************************)
(* detect_rooms called on an array or a QImage.                            *)
(***************************************************************************)
InitDetect ==
    /\ pc = "ready"
    /\ input \in DetectInputs
    /\ result = NoResult
    /\ ViewerInit

CallDetectRooms ==
    /\ pc = "ready"
    /\ pc' = "detect_rooms"
    /\ result' = DetectRooms(input.image, input.cv)
    /\ UNCHANGED <<input, viewerVars>>

NextDetect == CallDetectRooms

SpecDetect == InitDetect /\ [][NextDetect]_vars

(***************************************************************************)
(* parse_pdf and render_pdf_to_image called on a path.                     *)
(***************************************************************************)
InitParse ==
    /\ pc = "ready"
    /\ input \in Documents
    /\ result = NoResult
    /\ ViewerInit

CallParsePdf ==
    /\ pc = "ready"
    /\ pc' = "parse_pdf"
    /\ result' = ParsePdf(input)
    /\ UNCHANGED <<input, viewerVars>>

CallRenderPdfToImage ==
    /\ pc = "ready"
    /\ pc' = "render_pdf_to_image"
    /\ result' = RenderPdfToImage(input)
    /\ UNCHANGED <<input, viewerVars>>

NextParse == CallParsePdf \/ CallRenderPdfToImage

SpecParse == InitParse /\ [][NextParse]_vars

(***************************************************************************)
(* The viewer: MainWindow._handle_select_pdf, once per click on the        *)
(* button.  A choice is what the file dialog returns: nothing, or a path.  *)
(***************************************************************************)
ViewerChoices ==
    {[cancelled |-> TRUE, doc |-> MissingPath]}
    \cup {[cancelled |-> FALSE, doc |-> d] : d \in ViewerDocuments}

\* variant: the scene is not cleared
SceneAfterRenderNoClear(items, image) == items \o <<PixmapItem(image)>>

\* self._scene.clear() followed by addPixmap
SceneAfterRender(items, image) == <<PixmapItem(image)>>

\* the widgets and what the last run of the handler left behind
View ==
    [scene |-> scene, sceneRect |-> sceneRect, table |-> table,
     dialog |-> dialog, outcome |-> outcome, shown |-> shown,
     propagated |-> propagated]

\* _draw_room_overlays and _populate_table on the page
ShowEstimates(page, room_estimates) ==
    [page EXCEPT !.scene = page.scene \o RoomOverlays(room_estimates),
                 !.table = TableRows(room_estimates)]

\* page: the view with the rendered page in the scene; d: what detect_rooms
\* did with the page
ShowRooms(page, d) ==
    IF d.err = "none"
    THEN ShowEstimates([page EXCEPT !.outcome = "ok", !.dialog = "none"],
                       d.estimates)
    ELSE IF DetectCaught(d.err)
    THEN ShowEstimates([page EXCEPT !.outcome = "detect_error",
                                    !.dialog = "warning"], <<>>)
    ELSE [page EXCEPT !.outcome = "detect_error", !.dialog = "none",
                      !.propagated = TRUE]

\* _handle_select_pdf from the dialog's answer to its return (or to the
\* exception that leaves it): the view it leaves behind
SelectPdf(view, choice) ==
    LET doc == choice.doc
        r   == RenderPdfToImage(doc)
    IN  IF choice.cancelled
        THEN [view EXCEPT !.outcome = "cancelled", !.dialog = "none"]
        ELSE IF r.err # "none"
        THEN [view EXCEPT !.outcome = "render_error",
                          !.dialog = IF RenderCaught(r.err) THEN "critical"
                                     ELSE "none",
                          !.propagated = ~RenderCaught(r.err)]
        ELSE ShowRooms([view EXCEPT
                            !.scene = SceneAfterRender(view.scene, r.image),
                            !.sceneRect = PixmapItem(r.image).rect,
                            !.shown = <<doc>>],
                       DetectRooms([kind |-> "ndarray", shape |-> r.array],
                                   doc.cv))

Init ==
    /\ pc = "viewer"
    /\ input = <<>>
    /\ result = NoResult
    /\ ViewerInit

\* an exception that leaves a slot ends the process
HandleSelectPdf ==
    /\ pc = "viewer"
    /\ ~propagated
    /\ \E choice \in ViewerChoices :
         \E v \in {SelectPdf(View, choice)} :
            /\ scene' = v.scene
            /\ sceneRect' = v.sceneRect
            /\ table' = v.table
            /\ dialog' = v.dialog
            /\ outcome' = v.outcome
            /\ shown' = v.shown
            /\ propagated' = v.propagated
    /\ UNCHANGED callVars

Next == HandleSelectPdf

Spec == Init /\ [][Next]_vars

(***************************************************************************)
(* Properties.  The reference values are exact integer arithmetic:         *)
(* 0.0005 = 1/2000, 0.95 = 19/20, 0.1 * 0.1 = 1/100, 2 * 0.1 * 8 = 160/100,*)
(* 2 * 0.1 / (16/12) = 3/20.                                               *)
(***************************************************************************)
Returned == pc = "detect_rooms" /\ result.err = "none"

\* width and height of the image handed to detect_rooms
ImageWidth == input.image.shape[2]

ImageHeight == input.image.shape[1]

\* w*h >= max(0.0005*W*H, 2000) and not (w >= 0.95*W and h >= 0.95*H)
Keeps(c, W, H) ==
    /\ c.w * c.h >= 2000
    /\ c.w * c.h >= (W * H + 1999) \div 2000
    /\ ~(20 * c.w >= 19 * W /\ 20 * c.h >= 19 * H)

\* C1: _filter_contours keeps a contour if and only if its bounding box
\* has w*h >= max(0.0005*W*H, 2000) and does not reach 95% of both the
\* width and the height of the image; the kept contours are in input order.
C1_FilterKeepsExactly ==
    Returned =>
        result.filtered
            = SelectSeq(input.cv.contours,
                        LAMBDA c : Keeps(c, ImageWidth, ImageHeight))

\* a 96% x 96% box is dropped, a box at 95% of the width alone is kept
C1_Witness ==
    /\ Returned
    /\ input.cv.contours = <<Contour(2, 2, 96, 96), Contour(0, 5, 95, 94)>>
    /\ result.filtered = <<Contour(0, 5, 95, 94)>>

Reorderings(n) ==
    {f \in [1..n -> 1..n] : \A i, j \in 1..n : i # j => f[i] # f[j]}

\* C2: the list detect_rooms returns is a permutation of the estimates
\* built from the surviving contours, flooring_sqft does not increase along
\* it, and estimates of equal flooring_sqft keep their discovery order.
C2_StableDescending ==
    Returned =>
        \E f \in Reorderings(Len(result.built)) :
            /\ Len(result.estimates) = Len(result.built)
            /\ \A i \in 1..Len(result.built) :
                   result.estimates[i] = result.built[f[i]]
            /\ \A i, j \in 1..Len(result.built) :
                   i < j =>
                     LET c == FCmp(result.estimates[i].flooring_sqft,
                                   result.estimates[j].flooring_sqft)
                     IN  c > 0 \/ (c = 0 /\ f[i] < f[j])

\* two rooms of 20 sqft each, found in this order and returned in this order
C2_Witness ==
    /\ Returned
    /\ input.cv.contours = <<Contour(50, 20, 50, 40), Contour(10, 10, 40, 50)>>
    /\ result.estimates[1].rect = <<50, 20, 50, 40>>
    /\ result.estimates[2].rect = <<10, 10, 40, 50>>
    /\ FCmp(result.estimates[1].flooring_sqft,
            result.estimates[2].flooring_sqft) = 0

\* ceil(3 * (w + h) / 20), at least 1
ExactStuds(w, h) ==
    IF (3 * (w + h) + 19) \div 20 > 1 THEN (3 * (w + h) + 19) \div 20 ELSE 1

\* C3: every estimate with rect (x, y, w, h) has flooring_sqft = w*h/100
\* and drywall_sqft = 160*(w+h)/100 to two decimals, and
\* studs = max(1, ceil(3*(w+h)/20)), also when 3*(w+h)/20 is a whole number.
C3_EstimateFormulas ==
    Returned =>
        \A i \in 1..Len(result.estimates) :
            LET e == result.estimates[i]
                w == e.rect[3]
                h == e.rect[4]
            IN  /\ e.flooring_sqft = FFromHundredths(w * h)
                /\ e.drywall_sqft = FFromHundredths(160 * (w + h))
                /\ e.studs = ExactStuds(w, h)

\* C4: every estimate detect_rooms returns has width > 0, height > 0,
\* x >= 0, y >= 0, flooring_sqft > 0, drywall_sqft > 0 and studs >= 1.
C4_PositiveMetrics ==
    Returned =>
        \A i \in 1..Len(result.estimates) :
            LET e == result.estimates[i]
            IN  /\ e.rect[1] >= 0 /\ e.rect[2] >= 0
                /\ e.rect[3] > 0 /\ e.rect[4] > 0
                /\ FCmp(e.flooring_sqft, FZero) > 0
                /\ FCmp(e.drywall_sqft, FZero) > 0
                /\ e.studs >= 1

\* a room whose left edge is as far from the margin as the room is wide
C4_Witness ==
    /\ Returned
    /\ Len(result.estimates) >= 1
    /\ result.estimates[Len(result.estimates)].rect = <<50, 20, 50, 40>>

Parsed == pc = "parse_pdf" /\ result.returned

\* the totals of A, of B and of A followed by B agree as two-decimal numbers
Additive(A, B) ==
    LET ab == Totals(A \o B)
        a  == Totals(A)
        b  == Totals(B)
    IN  /\ FHundredths(ab.flooring_sqft)
             = FHundredths(a.flooring_sqft) + FHundredths(b.flooring_sqft)
        /\ FHundredths(ab.drywall_sqft)
             = FHundredths(a.drywall_sqft) + FHundredths(b.drywall_sqft)
        /\ ab.studs = a.studs + b.studs
        /\ Totals(B \o A) = ab

\* the totals of A followed by B are the float sums of the totals of A and B
ExactSum(A, B) ==
    LET ab == Totals(A \o B)
        a  == Totals(A)
        b  == Totals(B)
    IN  /\ ab.flooring_sqft = FAdd(a.flooring_sqft, b.flooring_sqft)
        /\ ab.drywall_sqft = FAdd(a.drywall_sqft, b.drywall_sqft)
        /\ ab.studs = a.studs + b.studs
        /\ Totals(B \o A) = ab

\* C5 as stated: the totals of parse_pdf are an element-wise sum: for every
\* split of the rooms into A followed by B, totals(A ++ B) equals
\* totals(A) + totals(B) in flooring_sqft, drywall_sqft and studs, whatever
\* the order; the empty list gives 0, 0, 0 and a room_count of 0.
C5_TotalsExactSum ==
    Parsed =>
        /\ result.summary.totals = Totals(result.rooms)
        /\ result.summary.room_count = Len(result.rooms)
        /\ \A k \in 0..Len(result.rooms) :
               ExactSum(SubSeq(result.rooms, 1, k),
                        SubSeq(result.rooms, k + 1, Len(result.rooms)))
        /\ result.rooms = <<>> =>
               /\ result.summary.totals
                    = [flooring_sqft |-> FZero, drywall_sqft |-> FZero,
                       studs |-> 0]
               /\ result.summary.room_count = 0

\* C5 amended: for every split of the rooms into A followed by B,
\* totals(A ++ B) and totals(A) + totals(B) are the same number of
\* hundredths in flooring_sqft and drywall_sqft (the float sum of two totals
\* can differ from the total in its last bit) and the same studs, whatever
\* the order; the empty list gives 0, 0, 0 and a room_count of 0.
C5_TotalsAdditive ==
    Parsed =>
        /\ result.summary.totals = Totals(result.rooms)
        /\ result.summary.room_count = Len(result.rooms)
        /\ \A k \in 0..Len(result.rooms) :
               Additive(SubSeq(result.rooms, 1, k),
                        SubSeq(result.rooms, k + 1, Len(result.rooms)))
        /\ result.rooms = <<>> =>
               /\ result.summary.totals
                    = [flooring_sqft |-> FZero, drywall_sqft |-> FZero,
                       studs |-> 0]
               /\ result.summary.room_count = 0

\* 20.52 + 20.0 is not a binary64 sum that equals 40.52; the total is 40.52
C5_Witness ==
    /\ Parsed
    /\ Len(result.rooms) = 2
    /\ FHundredths(result.summary.totals.flooring_sqft) = 4052
    /\ FAdd(result.rooms[1].flooring_sqft, result.rooms[2].flooring_sqft)
         # result.summary.totals.flooring_sqft

NotFoundBeforeOpen ==
    /\ result.err = "FileNotFoundError"
    /\ result.trace = <<"exists">>
    /\ ~result.returned

\* C6 as stated: parse_pdf on a path that is missing, or that exists but is
\* not a file, fails with the file-not-found error before the PDF is opened,
\* before rendering and before detect_rooms, and returns no summary.
C6_NotAFileNotFound ==
    (pc = "parse_pdf" /\ input.fs # "file") => NotFoundBeforeOpen

\* C6 amended: parse_pdf on a path that does not exist fails with the
\* file-not-found error before the PDF is opened, before rendering and
\* before detect_rooms, and returns no summary; a path that exists but is
\* not a file passes the existence check and fails in fitz.open.
C6_MissingNotFound ==
    /\ (pc = "parse_pdf" /\ input.fs = "missing") => NotFoundBeforeOpen
    /\ (pc = "parse_pdf" /\ input.fs = "directory") =>
           /\ result.err # "FileNotFoundError"
           /\ result.trace = <<"exists", "fitz.open">>
           /\ ~result.returned

C6_Witness ==
    /\ pc = "parse_pdf"
    /\ input.fs = "missing"
    /\ result.err = "FileNotFoundError"

IsPrefix(s, t) == Len(s) <= Len(t) /\ s = SubSeq(t, 1, Len(s))

\* the stages of detect_rooms for an array of the given channel count
StageOrder(channels) ==
    << IF channels = 4 THEN "COLOR_RGBA2BGR" ELSE "COLOR_RGB2BGR",
       "COLOR_BGR2GRAY", "GaussianBlur", "adaptiveThreshold", "morphologyEx",
       "findContours", "_filter_contours", "estimates", "sort" >>

Rendered == outcome \in {"ok", "detect_error"}

Overlays == SelectSeq(scene, LAMBDA item : item.type = "rect")

PageOf(doc) ==
    [type |-> "pixmap", rect |-> <<0, 0, doc.width, doc.height>>, z |-> 0,
     tip |-> <<>>]

\* C8: when rendering succeeds and detect_rooms raises, the handler reports
\* a warning, shows the rendered page, leaves no overlay rectangle and no
\* table row; no exception from rendering or detection leaves the handler,
\* and another selection can be made afterwards.
C8_DetectionFailureContained ==
    /\ ~propagated
    /\ ENABLED HandleSelectPdf
    /\ (Rendered /\ shown[1].cv.fail > 0) =>
           /\ dialog = "warning"
           /\ scene = <<PageOf(shown[1])>>
           /\ Overlays = <<>>
           /\ table = <<>>

C8_Witness ==
    /\ Rendered
    /\ shown[1].cv.fail > 0
    /\ dialog = "warning"
    /\ Len(scene) = 1

\* C9: for a rasterizer channel count of 1, 3 or 4, render_pdf_to_image
\* returns a 3-dimensional array of shape (image height, image width, 4),
\* which passes the shape check of detect_rooms.
C9_RenderedArrayIsRGBA ==
    (pc = "render_pdf_to_image" /\ result.err = "none") =>
        /\ Len(result.array) = 3
        /\ result.array = <<result.image.height, result.image.width, 4>>
        /\ result.image.width = input.width
        /\ result.image.height = input.height
        /\ DetectRooms([kind |-> "ndarray", shape |-> result.array],
                       [fail |-> 0, contours |-> <<>>]).err = "none"

C9_Witness ==
    /\ pc = "render_pdf_to_image"
    /\ input.n = 1
    /\ result.err = "none"
    /\ result.array[3] = 4

\* the number of estimates of the last selection whose render succeeded
ExpectedRooms ==
    IF shown = <<>> THEN 0
    ELSE IF shown[1].cv.fail > 0 THEN 0
    ELSE Len(SelectSeq(shown[1].cv.contours,
                       LAMBDA c : Keeps(c, shown[1].width, shown[1].height)))

OverlaysMatchTable ==
    /\ Len(Overlays) = Len(table)
    /\ Len(table) = ExpectedRooms
    /\ Len(scene) = Len(Overlays) + (IF shown = <<>> THEN 0 ELSE 1)

\* C10: after any sequence of selections the number of overlay rectangles
\* equals the number of table rows and the number of estimates of the last
\* selection whose render succeeded (zero if none, or if its detection
\* failed); a cancelled dialog or a render failure leaves scene and table
\* as they were; overlays of earlier selections do not accumulate.
C10_OverlaysFollowSelection ==
    /\ []OverlaysMatchTable
    /\ [][outcome' \in {"cancelled", "render_error"}
            => (scene' = scene /\ table' = table)]_vars

\* two rooms shown, then a dialog that was cancelled
C10_Witness ==
    /\ outcome = "cancelled"
    /\ Len(table) = 2
    /\ Len(Overlays) = 2

=============================================================================
